---- MODULE Spec2Model ----
(***************************************************************************)
(* Second-order effects trading system.                                    *)
(*                                                                         *)
(*   Spec     the QuantConnect algorithm SecondOrderEffectsAlgorithm       *)
(*            (src/second_order_algo.py): data callbacks, the daily 9:45   *)
(*            tick, stop fills by the brokerage, end-of-day sweeps.        *)
(*   SpecGen  SecondOrderAI.generate_trade_signals as a pure function of   *)
(*            its input map (src/second_order_ai.py).                      *)
(*   SpecAI   SecondOrderAI.map_second_order_effects and _query_claude     *)
(*            with the response cache and the external call.               *)
(*                                                                         *)
(* Units.  Confidences, magnitudes, returns and percentages are integers   *)
(* in hundredths (60 stands for 0.6 and for 60%), so that every comparison *)
(* of the source is an exact integer comparison.  Days are whole days.     *)
(***************************************************************************)
EXTENDS Integers, Sequences, FiniteSets, TLC

VARIABLES
    Time,                     \* self.Time, in whole days since the start date
    phase,                    \* position of the trading day: "open", "traded", "closing"
    Portfolio,                \* self.Portfolio[s].Quantity for every security
    orders,                   \* open stop orders held by the brokerage
    second_order_positions,   \* self.second_order_positions
    rejected,                 \* the trade calls the last handler made that were rejected
    events,                   \* the intraday events the last data callback detected
    closed,                   \* the positions the last end-of-day sweep liquidated
    second_order_map,         \* input of generate_trade_signals
    signals,                  \* its result
    gen_pc,                   \* "input" before the call, "done" after it
    cache,                    \* SecondOrderAI.cache
    now,                      \* datetime.now(), in seconds
    tasks                     \* the coroutines of SecondOrderAI in flight or ended

vars == <<Time, phase, Portfolio, orders, second_order_positions, rejected, events, closed,
          second_order_map, signals, gen_pc, cache, now, tasks>>

algoVars == <<Time, phase, Portfolio, orders, second_order_positions, rejected,
              events, closed>>
genVars == <<second_order_map, signals, gen_pc>>
aiVars == <<cache, now, tasks>>

(***************************************************************************)
(* Bounds of the model.                                                    *)
(***************************************************************************)
\* Last day of the backtest that is explored.
MaxDay == 7
\* self.max_positions.  The source sets 10 (Initialize); the model explores
\* a smaller configured cap so that the cap is reached by the securities
\* that are explored.
max_positions == 1

(***************************************************************************)
(* Constants of the algorithm.                                             *)
(***************************************************************************)
position_size == 10
second_order_multiplier == 60
StartingCash == 100000
IntradayThreshold == 5
MultiDayThreshold == 10
DifferentialThreshold == 5
HoldingDays == 5
LongStopPct == 95
ShortStopPct == 105
\* Securities[s].Price at the time of an entry.
EntryPrice == 100

Abs(x) == IF x < 0 THEN -x ELSE x

RECURSIVE Flatten(_)
\* category -> tickers items of one chain as one sequence of <<category, ticker>>
Flatten(items) ==
    IF items = <<>> THEN <<>>
    ELSE [i \in 1..Len(Head(items).tickers) |->
             <<Head(items).category, Head(items).tickers[i]>>]
         \o Flatten(Tail(items))

Range(s) == {s[i] : i \in 1..Len(s)}

\* self.supply_chains: primary ticker -> ordered (category, tickers) items
supply_chains ==
    [p \in {"AAPL", "TSLA", "NVDA"} |->
        CASE p = "AAPL" ->
               << [category |-> "suppliers",   tickers |-> <<"QCOM", "SWKS", "AVGO", "QRVO">>],
                  [category |-> "competitors", tickers |-> <<"GOOGL", "MSFT", "AMZN">>],
                  [category |-> "related",     tickers |-> <<"FOXC", "LPL", "AAOI">>] >>
          [] p = "TSLA" ->
               << [category |-> "suppliers",   tickers |-> <<"PANW", "ALB", "LAC", "LTHM">>],
                  [category |-> "competitors", tickers |-> <<"F", "GM", "RIVN", "LCID">>],
                  [category |-> "related",     tickers |-> <<"QS", "CHPT", "BLNK">>] >>
          [] p = "NVDA" ->
               << [category |-> "suppliers",   tickers |-> <<"TSM", "ASML", "AMAT", "LRCX">>],
                  [category |-> "customers",   tickers |-> <<"MSFT", "GOOGL", "AMZN", "META">>],
                  [category |-> "competitors", tickers |-> <<"AMD", "INTC">>] >>]

\* self.primary_movers
primary_movers == <<"AAPL", "TSLA", "NVDA", "MSFT", "AMZN">>

\* chain.get(category, [])
ChainGet(chain, category) ==
    IF \E i \in 1..Len(chain) : chain[i].category = category
    THEN (CHOOSE it \in Range(chain) : it.category = category).tickers
    ELSE <<>>

\* The related tickers that AddEquity succeeded for.  Initialize wraps each
\* AddEquity of a related ticker in try/except; the configuration explored is
\* the one where the data feed knows the primary movers only, two of which
\* (MSFT, AMZN) are related tickers of AAPL (competitors) and NVDA (customers).
Added == {}

\* The securities of the algorithm: the primary movers and the related tickers added.
Securities == Range(primary_movers) \cup Added

(***************************************************************************)
(* The book: the part of the state ExecuteSecondOrderTrade reads and       *)
(* writes.                                                                 *)
(***************************************************************************)
Book == [Portfolio |-> Portfolio, orders |-> orders,
         second_order_positions |-> second_order_positions]

\* A ticker counted as invested as long as it has a record.
Invested_OrTracked(b, symbol) ==
    b.Portfolio[symbol] # 0 \/ symbol \in DOMAIN b.second_order_positions

\* self.Portfolio[symbol].Invested
Invested(b, symbol) == b.Portfolio[symbol] # 0

\* len([x for x in self.Portfolio.Values if x.Invested])
current_positions(b) == Cardinality({s \in Securities : Invested(b, s)})

\* SetHoldings(symbol, fraction): a market order, filled at once, that brings the
\* holding to the target fraction (in millionths) of the portfolio value.
SetHoldings(pf, symbol, fraction) ==
    LET shares == (Abs(fraction) * (StartingCash \div EntryPrice)) \div 1000000
    IN  [pf EXCEPT ![symbol] = IF fraction < 0 THEN -shares ELSE shares]

\* StopMarketOrder(symbol, quantity, stopPrice)
StopMarketOrder(os, symbol, quantity, stopPrice) ==
    os \cup {[symbol |-> symbol, quantity |-> quantity, stop |-> stopPrice]}

\* Liquidate(symbol): cancels the symbol's open orders and flattens the holding.
Liquidate(b, symbol) ==
    [b EXCEPT !.Portfolio[symbol] = 0,
              !.orders = {o \in b.orders : o.symbol # symbol}]

\* The size without the second-order multiplier.
adjusted_size_NoMultiplier(confidence) == position_size * 100 * confidence

\* base_size * confidence, in millionths of the portfolio
adjusted_size(confidence) == position_size * second_order_multiplier * confidence

\* The record written to self.second_order_positions[symbol].
PositionInfo(t, direction, reason, confidence) ==
    [entry_time |-> t, direction |-> direction, reason |-> reason,
     confidence |-> confidence]

\* dict assignment d[k] = v
Put(d, k, v) == [x \in DOMAIN d \cup {k} |-> IF x = k THEN v ELSE d[x]]

\* del d[k]
Del(d, k) == [x \in DOMAIN d \ {k} |-> d[x]]

\* The accepted branch with the stop of a short placed like the stop of a long.
OpenPosition_StopsNotInverted(b, symbol, direction, reason, confidence, t) ==
      LET pf == IF direction = "LONG"
                  THEN SetHoldings(b.Portfolio, symbol, adjusted_size(confidence))
                ELSE IF direction = "SHORT"
                  THEN SetHoldings(b.Portfolio, symbol, -adjusted_size(confidence))
                ELSE b.Portfolio
          os == IF direction = "LONG"
                  THEN StopMarketOrder(b.orders, symbol, -pf[symbol],
                                       (EntryPrice * LongStopPct) \div 100)
                ELSE IF direction = "SHORT"
                  THEN StopMarketOrder(b.orders, symbol, pf[symbol],
                                       (EntryPrice * LongStopPct) \div 100)
                ELSE b.orders
      IN  [Portfolio |-> pf, orders |-> os,
           second_order_positions |->
               Put(b.second_order_positions, symbol,
                   PositionInfo(t, direction, reason, confidence))]

\* The accepted branch of ExecuteSecondOrderTrade.
OpenPosition(b, symbol, direction, reason, confidence, t) ==
      LET pf == IF direction = "LONG"
                  THEN SetHoldings(b.Portfolio, symbol, adjusted_size(confidence))
                ELSE IF direction = "SHORT"
                  THEN SetHoldings(b.Portfolio, symbol, -adjusted_size(confidence))
                ELSE b.Portfolio
          os == IF direction = "LONG"
                  THEN StopMarketOrder(b.orders, symbol, -pf[symbol],
                                       (EntryPrice * LongStopPct) \div 100)
                ELSE IF direction = "SHORT"
                  THEN StopMarketOrder(b.orders, symbol, pf[symbol],
                                       (EntryPrice * ShortStopPct) \div 100)
                ELSE b.orders
      IN  [Portfolio |-> pf, orders |-> os,
           second_order_positions |->
               Put(b.second_order_positions, symbol,
                   PositionInfo(t, direction, reason, confidence))]

\* ExecuteSecondOrderTrade with the position limit tested by > instead of >=.
ExecuteSecondOrderTrade_LimitOffByOne(b, symbol, direction, reason, confidence, t) ==
    IF Invested(b, symbol) THEN b
    ELSE IF current_positions(b) > max_positions THEN b
    ELSE OpenPosition(b, symbol, direction, reason, confidence, t)

ExecuteSecondOrderTrade(b, symbol, direction, reason, confidence, t) ==
    IF Invested(b, symbol) THEN b
    ELSE IF current_positions(b) >= max_positions THEN b
    ELSE OpenPosition(b, symbol, direction, reason, confidence, t)

(***************************************************************************)
(* A handler run: the book it has reached, the calls it saw rejected and   *)
(* the primary events it detected.                                         *)
(***************************************************************************)
Start(b) == [book |-> b, rejected |-> {}, events |-> {}]

\* self.Debug("Primary event detected: ...") / self.Debug("Multi-day event: ...")
Detected(run, symbol, rule) ==
    [run EXCEPT !.events = @ \cup {[symbol |-> symbol, rule |-> rule]}]

\* How a call of ExecuteSecondOrderTrade ended.
Outcome(b, symbol) ==
    IF Invested(b, symbol) THEN "invested"
    ELSE IF current_positions(b) >= max_positions THEN "capacity"
    ELSE "opened"

\* One call of ExecuteSecondOrderTrade inside a handler.
Trade(run, symbol, direction, reason, confidence, t) ==
    LET after == ExecuteSecondOrderTrade(run.book, symbol, direction, reason,
                                         confidence, t)
    IN  [book |-> after,
         events |-> run.events,
         rejected |->
             IF Outcome(run.book, symbol) = "opened" THEN run.rejected
             ELSE run.rejected \cup {[symbol |-> symbol,
                                      outcome |-> Outcome(run.book, symbol),
                                      changed |-> after # run.book]}]

(***************************************************************************)
(* Market data the handlers read.  Closes are prices in whole currency     *)
(* units; every series starts at 100, so a simple return is a whole number *)
(* of hundredths.                                                          *)
(***************************************************************************)
Closes(first, last) == [kind |-> "closes", first |-> first, last |-> last]
Missing == [kind |-> "missing"]

\* What history.loc[symbol] can be for a primary mover on the daily tick: the
\* symbol is missing (KeyError), or its 5 daily closes run from first to last.
PrimaryHistories == {Missing} \cup {Closes(100, l) : l \in {88, 100, 110, 112}}

\* What self.History([ticker], 20, Daily) can be for a related ticker that was
\* added: empty, or closes whose [-5] and [-1] entries are first and last.
TickerHistories == {Missing} \cup {Closes(100, l) : l \in {100, 107}}

\* The slices OnData is called with, as the set of symbols that have a bar:
\* every security, or every security but one of the last two primary movers.
DataSlices == {Securities} \cup {Securities \ {s} : s \in {"MSFT", "AMZN"}}

\* Holdings.UnrealizedProfitPercent of an invested security.
UnrealizedReturns == {-6, 5, 6}

\* The move of a bar's close (data[symbol].Close) since the session's open, in
\* hundredths.  OnData reads the close into current_price and never uses it.
SessionReturns == {-6, 0, 5, 6}

\* The return taken over the last close instead of the first.
SimpleReturn_OverLast(h) == ((h.last - h.first) * 100) \div h.last

\* (close.iloc[-1] / close.iloc[0]) - 1, in hundredths
SimpleReturn(h) == ((h.last - h.first) * 100) \div h.first

\* self.Securities[symbol].Holdings.UnrealizedProfitPercent: zero for a
\* security that is not held, otherwise what the market has done since entry.
UnrealizedProfitPercent(b, symbol) ==
    IF b.Portfolio[symbol] = 0 THEN {0} ELSE UnrealizedReturns

(***************************************************************************)
(* TriggerSecondOrderTrades and OnData (the intraday path).                *)
(***************************************************************************)
RECURSIVE TradeEach(_, _, _, _, _, _, _)
\* for ticker in tickers: if data.ContainsKey(ticker): ExecuteSecondOrderTrade(...)
TradeEach(run, tickers, data, direction, reason, confidence, t) ==
    IF tickers = <<>> THEN run
    ELSE TradeEach(IF Head(tickers) \in data
                     THEN Trade(run, Head(tickers), direction, reason, confidence, t)
                     ELSE run,
                   Tail(tickers), data, direction, reason, confidence, t)

\* TriggerSecondOrderTrades falling back to the first chain for a primary
\* symbol that has none.
TriggerSecondOrderTrades_DefaultChain(run, primary_symbol, primary_move, data, t) ==
      LET chain == IF primary_symbol \in DOMAIN supply_chains
                     THEN supply_chains[primary_symbol]
                     ELSE supply_chains["AAPL"]
      IN  IF primary_move > 0
          THEN TradeEach(
                 TradeEach(run, ChainGet(chain, "suppliers"), data, "LONG",
                           <<primary_symbol, "rally benefits supplier">>, 70, t),
                 ChainGet(chain, "competitors"), data, "SHORT",
                 <<primary_symbol, "rally hurts competitor">>, 50, t)
          ELSE TradeEach(
                 TradeEach(run, ChainGet(chain, "suppliers"), data, "SHORT",
                           <<primary_symbol, "decline hurts supplier">>, 60, t),
                 ChainGet(chain, "competitors"), data, "LONG",
                 <<primary_symbol, "decline helps competitor">>, 40, t)

TriggerSecondOrderTrades(run, primary_symbol, primary_move, data, t) ==
    IF primary_symbol \notin DOMAIN supply_chains THEN run
    ELSE
      LET chain == supply_chains[primary_symbol]
      IN  IF primary_move > 0
          THEN TradeEach(
                 TradeEach(run, ChainGet(chain, "suppliers"), data, "LONG",
                           <<primary_symbol, "rally benefits supplier">>, 70, t),
                 ChainGet(chain, "competitors"), data, "SHORT",
                 <<primary_symbol, "rally hurts competitor">>, 50, t)
          ELSE TradeEach(
                 TradeEach(run, ChainGet(chain, "suppliers"), data, "SHORT",
                           <<primary_symbol, "decline hurts supplier">>, 60, t),
                 ChainGet(chain, "competitors"), data, "LONG",
                 <<primary_symbol, "decline helps competitor">>, 40, t)

\* The body of OnData's loop for one primary mover, for every value the
\* unrealized return can have.
OnDataSymbol(run, symbol, data, t) ==
    IF symbol \notin data THEN {run}
    ELSE { IF Abs(daily_return) > IntradayThreshold
             THEN TriggerSecondOrderTrades(Detected(run, symbol, "intraday"),
                                           symbol, daily_return, data, t)
             ELSE run
           : daily_return \in UnrealizedProfitPercent(run.book, symbol) }

RECURSIVE OnDataFrom(_, _, _, _)
\* OnData's loop from the i-th primary mover on, from every run in runs.
OnDataFrom(runs, i, data, t) ==
    IF i > Len(primary_movers) THEN runs
    ELSE OnDataFrom(UNION {OnDataSymbol(r, primary_movers[i], data, t) : r \in runs},
                    i + 1, data, t)

(***************************************************************************)
(* AnalyzeSecondOrderOpportunities and DetectSecondOrderEffects (the       *)
(* multi-day path).                                                        *)
(***************************************************************************)
\* The inner loop body without the inversion for competitors.
AnalyzeTicker_NoInversion(run, category, ticker, primary_symbol, multi_day_return, t) ==
    { IF ticker_history.kind = "missing" THEN run
      ELSE IF Abs(multi_day_return) - Abs(SimpleReturn(ticker_history))
                > DifferentialThreshold
        THEN Trade(run, ticker, IF multi_day_return > 0 THEN "LONG" ELSE "SHORT",
                   <<"Lagging", category, primary_symbol>>, 60, t)
        ELSE run
      : ticker_history \in IF ticker \in Securities THEN TickerHistories ELSE {Missing} }

\* The body of the inner loop for one (category, ticker), for every history the
\* ticker can have; a ticker that is no security of the algorithm has none.
AnalyzeTicker(run, category, ticker, primary_symbol, multi_day_return, t) ==
    { IF ticker_history.kind = "missing" THEN run
      ELSE IF Abs(multi_day_return) - Abs(SimpleReturn(ticker_history))
                > DifferentialThreshold
        THEN LET direction == IF multi_day_return > 0 THEN "LONG" ELSE "SHORT"
                 adjusted == IF category = "competitors"
                               THEN (IF direction = "LONG" THEN "SHORT" ELSE "LONG")
                               ELSE direction
             IN  Trade(run, ticker, adjusted,
                       <<"Lagging", category, primary_symbol>>, 60, t)
        ELSE run
      : ticker_history \in IF ticker \in Securities THEN TickerHistories ELSE {Missing} }

RECURSIVE AnalyzeFrom(_, _, _, _, _)
AnalyzeFrom(runs, pairs, primary_symbol, multi_day_return, t) ==
    IF pairs = <<>> THEN runs
    ELSE AnalyzeFrom(
           UNION {AnalyzeTicker(r, Head(pairs)[1], Head(pairs)[2], primary_symbol,
                                multi_day_return, t) : r \in runs},
           Tail(pairs), primary_symbol, multi_day_return, t)

AnalyzeSecondOrderOpportunities(run, primary_symbol, multi_day_return, t) ==
    IF primary_symbol \notin DOMAIN supply_chains THEN {run}
    ELSE AnalyzeFrom({run}, Flatten(supply_chains[primary_symbol]),
                     primary_symbol, multi_day_return, t)

\* The body of DetectSecondOrderEffects' loop for one primary mover whose
\* history is symbol_data; the multi-day events are kept in the run when log
\* is set.
DetectSymbolWith(run, symbol, symbol_data, t, log) ==
    IF symbol_data.kind = "missing" THEN {run}        \* except: continue
    ELSE IF Abs(SimpleReturn(symbol_data)) > MultiDayThreshold
      THEN AnalyzeSecondOrderOpportunities(
             IF log THEN Detected(run, symbol, "multi_day") ELSE run,
             symbol, SimpleReturn(symbol_data), t)
      ELSE {run}

\* The loop body for every history the primary mover can have.
DetectSymbol(run, symbol, t, log) ==
    UNION { DetectSymbolWith(run, symbol, symbol_data, t, log)
            : symbol_data \in PrimaryHistories }

RECURSIVE DetectFrom(_, _, _, _)
DetectFrom(runs, i, t, log) ==
    IF i > Len(primary_movers) THEN runs
    ELSE DetectFrom(UNION {DetectSymbol(r, primary_movers[i], t, log) : r \in runs},
                    i + 1, t, log)

(***************************************************************************)
(* OnEndOfDay.                                                             *)
(***************************************************************************)
\* positions_to_close with the holding period one day too long.
positions_to_close_OneDayLate(b, t) ==
    {sym \in DOMAIN b.second_order_positions :
        t - b.second_order_positions[sym].entry_time > HoldingDays + 1}

\* positions_to_close with the holding period one day too short.
positions_to_close_OneDayEarly(b, t) ==
    {sym \in DOMAIN b.second_order_positions :
        t - b.second_order_positions[sym].entry_time >= HoldingDays}

\* positions_to_close
positions_to_close(b, t) ==
    {sym \in DOMAIN b.second_order_positions :
        t - b.second_order_positions[sym].entry_time > HoldingDays}

RECURSIVE CloseOld_DeleteOnNextSweep(_, _)
\* The close loop that keeps the record of a position it liquidates and
\* deletes the record of one that is not invested.
CloseOld_DeleteOnNextSweep(b, syms) ==
    IF syms = {} THEN b
    ELSE LET sym == CHOOSE s \in syms : TRUE
             b1 == IF Invested(b, sym)
                     THEN Liquidate(b, sym)
                     ELSE [b EXCEPT !.second_order_positions = Del(@, sym)]
         IN  CloseOld_DeleteOnNextSweep(b1, syms \ {sym})

RECURSIVE CloseOld(_, _)
\* for sym in positions_to_close: if Invested: Liquidate(sym); del positions[sym]
CloseOld(b, syms) ==
    IF syms = {} THEN b
    ELSE LET sym == CHOOSE s \in syms : TRUE
             b1 == IF Invested(b, sym)
                     THEN [Liquidate(b, sym) EXCEPT
                             !.second_order_positions = Del(@, sym)]
                     ELSE b
         IN  CloseOld(b1, syms \ {sym})

(***************************************************************************)
(* The algorithm as a state machine.                                       *)
(***************************************************************************)
Install(run) ==
    /\ Portfolio' = run.book.Portfolio
    /\ orders' = run.book.orders
    /\ second_order_positions' = run.book.second_order_positions
    /\ rejected' = run.rejected
    /\ events' = run.events
    /\ closed' = {}

\* The other components, idle.
GenIdle == second_order_map = <<>> /\ signals = <<>> /\ gen_pc = "idle"
AIIdle == cache = <<>> /\ now = 0 /\ tasks = <<>>

\* Initialize
Init ==
    /\ Time = 0
    /\ phase = "open"
    /\ Portfolio = [s \in Securities |-> 0]
    /\ orders = {}
    /\ second_order_positions = <<>>
    /\ rejected = {}
    /\ events = {}
    /\ closed = {}
    /\ GenIdle
    /\ AIIdle

\* A data slice arrives.
OnData ==
    /\ \E data \in DataSlices :
         \E run \in OnDataFrom({Start(Book)}, 1, data, Time) : Install(run)
    /\ UNCHANGED <<Time, phase, genVars, aiVars>>

\* The scheduled 9:45 tick.
DetectSecondOrderEffects ==
    /\ phase = "open"
    /\ \/ Install(Start(Book))                          \* history.empty
       \/ \E run \in DetectFrom({Start(Book)}, 1, Time, FALSE) : Install(run)
    /\ phase' = "traded"
    /\ UNCHANGED <<Time, genVars, aiVars>>

\* The engine calls OnEndOfDay once per security shortly before the close.
OnEndOfDay ==
    /\ phase \in {"traded", "closing"}
    /\ LET b == CloseOld(Book, positions_to_close(Book, Time))
       IN  /\ Portfolio' = b.Portfolio
           /\ orders' = b.orders
           /\ second_order_positions' = b.second_order_positions
           /\ rejected' = {}
           /\ events' = {}
           \* self.Debug("Closed second-order position: ...")
           /\ closed' = {[symbol |-> sym,
                          days |-> Time - second_order_positions[sym].entry_time] :
                         sym \in DOMAIN second_order_positions
                                 \ DOMAIN b.second_order_positions}
    /\ phase' = "closing"
    /\ UNCHANGED <<Time, genVars, aiVars>>

\* The brokerage fills an open stop order (its trigger price was crossed).
StopFill ==
    /\ \E o \in orders :
         /\ Portfolio' = [Portfolio EXCEPT ![o.symbol] = @ + o.quantity]
         /\ orders' = orders \ {o}
         /\ rejected' = {}
         /\ events' = {}
    /\ UNCHANGED <<Time, phase, second_order_positions, closed, genVars, aiVars>>

\* Day 0 (the start date, 2024-01-01) is a Monday; Saturdays and Sundays are
\* no trading days.
NextTradingDay(t) == IF t % 7 = 4 THEN t + 3 ELSE t + 1

\* The next trading day begins.
NextDay ==
    /\ phase = "closing"
    /\ NextTradingDay(Time) <= MaxDay
    /\ Time' = NextTradingDay(Time)
    /\ phase' = "open"
    /\ rejected' = {}
    /\ events' = {}
    /\ closed' = {}
    /\ UNCHANGED <<Portfolio, orders, second_order_positions, genVars, aiVars>>

Next ==
    \/ OnData
    \/ DetectSecondOrderEffects
    \/ OnEndOfDay
    \/ StopFill
    \/ NextDay

Spec == Init /\ [][Next]_vars

(***************************************************************************)
(* Claims about the Position Lifecycle Manager (specification Spec).       *)
(***************************************************************************)
StopPending(sym) == \E o \in orders : o.symbol = sym

\* C1: the number of tracked second-order positions never exceeds max_positions.
C1_TrackedWithinCap == Cardinality(DOMAIN second_order_positions) <= max_positions

\* C2: a trade call rejected because the ticker is already invested or because
\* the position limit is reached changes nothing: the holdings, the open stop
\* orders and every tracked record stay as they were.  Stated of every call the
\* handlers made and of every call that could be made in the current state.
C2_RejectedChangesNothing ==
    /\ \A r \in rejected : ~r.changed
    /\ \A symbol \in Securities, direction \in {"LONG", "SHORT"},
          confidence \in {40, 50, 60, 70} :
          Outcome(Book, symbol) # "opened"
          => ExecuteSecondOrderTrade(Book, symbol, direction, <<"signal">>,
                                     confidence, Time) = Book

\* A handler has seen one call rejected for an invested ticker and one for the
\* position limit, while a position with its stop and record is held.
C2_Witness ==
    /\ \E r \in rejected : r.outcome = "invested"
    /\ \E r \in rejected : r.outcome = "capacity"
    /\ orders # {}
    /\ DOMAIN second_order_positions # {}

\* C3 (as claimed): after the end-of-day sweep of day D+5 or later, a position
\* opened at day D whose stop has not fired is no longer invested.
C3_ClosedByDay5 ==
    phase = "closing"
    => \A sym \in DOMAIN second_order_positions :
          (Time - second_order_positions[sym].entry_time >= HoldingDays
           /\ StopPending(sym))
          => ~Invested(Book, sym)

\* C3 (amended): a position is liquidated by the first end-of-day sweep at which
\* more than 5 whole days have elapsed since its entry, and not before: after
\* a sweep no invested ticker has been held for more than 5 days, and every
\* position a sweep liquidated had been held for more than 5 days.
C3_ClosedAfterMoreThan5Days ==
    /\ phase = "closing"
       => \A sym \in Securities :
             Invested(Book, sym)
             => /\ sym \in DOMAIN second_order_positions
                /\ Time - second_order_positions[sym].entry_time <= HoldingDays
    /\ \A c \in closed : c.days > HoldingDays

\* A sweep has liquidated a position on its sixth day, which is then neither
\* invested nor tracked.
C3_Witness ==
    \E c \in closed :
        /\ c.days = HoldingDays + 1
        /\ ~Invested(Book, c.symbol)
        /\ c.symbol \notin DOMAIN second_order_positions

\* C4: an end-of-day sweep leaves no ticker in second_order_positions that is
\* not invested any more.
C4_ClosedIsRemoved ==
    [][(phase = "traded" /\ phase' = "closing")
       => \A sym \in DOMAIN second_order_positions' : Portfolio'[sym] # 0]_vars

\* C6: every tracked position was opened with a confidence above 0.6.
C6_ConfidenceAboveThreshold ==
    \A sym \in DOMAIN second_order_positions :
        second_order_positions[sym].confidence > 60

\* C11: no position is opened from a primary event unless the causal-mapping
\* collaborator has answered: records made from the relationship graph alone
\* open nothing.
C11_NoPositionFromGraphAlone ==
    \A sym \in DOMAIN second_order_positions :
        \E t \in DOMAIN tasks :
            tasks[t].request.op = "map" /\ tasks[t].pc = "returned"

\* C14: a ticker whose intraday event the data callback has just acted on gets
\* no multi-day event from the daily tick of the same cycle.
C14_MultiDaySuppressed ==
    phase = "open"
    => \A run \in DetectFrom({Start(Book)}, 1, Time, TRUE) :
          \A e \in run.events :
              e.rule = "multi_day"
              => [symbol |-> e.symbol, rule |-> "intraday"] \notin events

\* C15: a data callback detects an event for a primary mover of the slice
\* exactly if its return is above 5% in absolute value: the unrealized return
\* of a held instrument, the session return of one that is not held.
C15_DetectedIffAboveThreshold ==
    \A data \in DataSlices :
        \A symbol \in Range(primary_movers) \cap data :
            LET fired == {run.events # {} :
                            run \in OnDataSymbol(Start(Book), symbol, data, Time)}
            IN  IF Invested(Book, symbol)
                THEN fired = {Abs(r) > IntradayThreshold :
                                r \in UnrealizedProfitPercent(Book, symbol)}
                ELSE \A session \in SessionReturns :
                        fired = {Abs(session) > IntradayThreshold}

\* The number of shares that is the given fraction (in millionths) of the
\* portfolio value at the entry price.
SharesOf(fraction) == (fraction * (StartingCash \div EntryPrice)) \div 1000000

\* C17: a position is opened at 0.10 * 0.6 * confidence of the portfolio, long
\* for LONG and short for SHORT; stated of every open position whose stop has
\* not fired and of every call that would be accepted in the current state.
C17_SizeIsBaseTimesMultiplierTimesConfidence ==
    /\ \A sym \in DOMAIN second_order_positions :
          StopPending(sym)
          => LET info == second_order_positions[sym]
                 shares == SharesOf(10 * 60 * info.confidence)
             IN  Portfolio[sym] = IF info.direction = "LONG" THEN shares
                                   ELSE -shares
    /\ \A symbol \in Securities, confidence \in {40, 50, 60, 70} :
          Outcome(Book, symbol) = "opened"
          => /\ ExecuteSecondOrderTrade(Book, symbol, "LONG", <<"signal">>,
                                        confidence, Time).Portfolio[symbol]
                   = SharesOf(10 * 60 * confidence)
             /\ ExecuteSecondOrderTrade(Book, symbol, "SHORT", <<"signal">>,
                                        confidence, Time).Portfolio[symbol]
                   = -SharesOf(10 * 60 * confidence)

\* A short position has just been opened at confidence 0.6: 36 shares short
\* (3.6% of 100000 at a price of 100).
C17_Witness ==
    \E sym \in DOMAIN second_order_positions :
        /\ second_order_positions[sym].direction = "SHORT"
        /\ second_order_positions[sym].entry_time = Time
        /\ StopPending(sym)
        /\ Portfolio[sym] = -36

\* The step has written the record of sym: a position was opened for it.
Opened(sym) ==
    /\ sym \in DOMAIN second_order_positions'
    /\ \/ sym \notin DOMAIN second_order_positions
       \/ second_order_positions'[sym] # second_order_positions[sym]

\* C18: a position that is opened has a protective stop and a protective
\* target attached: two orders for its ticker.
C18_StopAndTargetAttached ==
    [][\A sym \in Securities :
          Opened(sym) => Cardinality({o \in orders' : o.symbol = sym}) >= 2]_vars

\* C19: the stop of a position lies below the entry price for a long position
\* and above it for a short one; stated of every open stop order and of every
\* call that would be accepted in the current state.
C19_StopInverted ==
    /\ \A o \in orders :
          /\ o.symbol \in DOMAIN second_order_positions
          /\ IF second_order_positions[o.symbol].direction = "LONG"
             THEN o.stop < EntryPrice
             ELSE o.stop > EntryPrice
    /\ \A symbol \in Securities, direction \in {"LONG", "SHORT"} :
          Outcome(Book, symbol) = "opened"
          => LET after == ExecuteSecondOrderTrade(Book, symbol, direction,
                                                  <<"signal">>, 60, Time)
             IN  /\ \E o \in after.orders : o.symbol = symbol
                 /\ \A o \in after.orders :
                       o.symbol = symbol
                       => IF direction = "LONG" THEN o.stop < EntryPrice
                          ELSE o.stop > EntryPrice

\* A short position is held with its stop order above the entry price.
C19_Witness ==
    \E o \in orders :
        /\ o.stop > EntryPrice
        /\ second_order_positions[o.symbol].direction = "SHORT"
        /\ Portfolio[o.symbol] < 0

\* The tickers with an open position.
OpenTickers == {s \in Securities : Portfolio[s] # 0}

\* C23: a signal for a ticker with an open position opens nothing; a signal for
\* a ticker without one, closed positions included, opens a position with the
\* current time as entry time whenever a slot is free.
C23_ClosedIsEligibleAgain ==
    \A symbol \in Securities, direction \in {"LONG", "SHORT"} :
        LET after == ExecuteSecondOrderTrade(Book, symbol, direction, <<"signal">>,
                                             60, Time)
        IN  /\ symbol \in OpenTickers => after = Book
            /\ (symbol \notin OpenTickers /\ Cardinality(OpenTickers) < max_positions)
               => /\ after.Portfolio[symbol] # 0
                  /\ after.second_order_positions[symbol].entry_time = Time
                  /\ after.second_order_positions[symbol].direction = direction

\* A ticker whose position was opened on an earlier day and closed by its stop
\* is flat on a morning on which a slot is free.
C23_Witness ==
    /\ phase = "open"
    /\ Cardinality(OpenTickers) < max_positions
    /\ \E sym \in DOMAIN second_order_positions :
          /\ Portfolio[sym] = 0
          /\ second_order_positions[sym].entry_time < Time

\* C24: the end-of-day sweep is idempotent: run again on the book it leaves,
\* it liquidates nothing and changes nothing.
C24_SweepIdempotent ==
    LET once == CloseOld(Book, positions_to_close(Book, Time))
        twice == CloseOld(once, positions_to_close(once, Time))
    IN  /\ twice = once
        /\ {sym \in positions_to_close(once, Time) : once.Portfolio[sym] # 0} = {}

\* A sweep has liquidated a position while the record of a position closed by
\* its stop is still tracked.
C24_Witness ==
    /\ phase = "closing"
    /\ closed # {}
    /\ \E sym \in DOMAIN second_order_positions :
          /\ Portfolio[sym] = 0
          /\ Time - second_order_positions[sym].entry_time > HoldingDays

\* C25: the sweep leaves every position held for 5 days or less as it is
\* (holding, stop orders and record), and what a sweep liquidated had been
\* held for more than 5 days.
C25_NoEarlyClose ==
    /\ LET after == CloseOld(Book, positions_to_close(Book, Time))
       IN  \A sym \in DOMAIN second_order_positions :
               Time - second_order_positions[sym].entry_time <= 5
               => /\ after.Portfolio[sym] = Portfolio[sym]
                  /\ sym \in DOMAIN after.second_order_positions
                  /\ after.second_order_positions[sym] = second_order_positions[sym]
                  /\ {o \in after.orders : o.symbol = sym}
                       = {o \in orders : o.symbol = sym}
    /\ \A c \in closed : c.days > 5

\* A sweep has left open a position held for exactly 5 days.
C25_Witness ==
    /\ phase = "closing"
    /\ \E sym \in DOMAIN second_order_positions :
          /\ Time - second_order_positions[sym].entry_time = 5
          /\ Portfolio[sym] # 0
          /\ StopPending(sym)

OpenedBy(run) ==
    {sym \in DOMAIN run.book.second_order_positions :
        \/ sym \notin DOMAIN second_order_positions
        \/ run.book.second_order_positions[sym] # second_order_positions[sym]}

C28_StopOppositeSign ==
    \A o \in orders :
        /\ o.quantity * Portfolio[o.symbol] < 0
        /\ Portfolio[o.symbol] + o.quantity = 0

(***************************************************************************)
(* SecondOrderAI.generate_trade_signals (specification SpecGen).           *)
(*                                                                         *)
(* second_order_map is the dict the function iterates: a sequence of       *)
(* (category, entities) items in insertion order.  The rationale of an     *)
(* entity is free text the function copies into the signal; the inputs     *)
(* explored give the k-th entity of the map the rationale k, so that a     *)
(* signal names the entity it was made from.                               *)
(***************************************************************************)
\* Longest input map explored, in entities.
MaxEntities == 11
\* [:10]
TopN == 10
ConfidenceThreshold == 60

Entity(ticker, relationship, direction, magnitude, confidence, lag, rationale) ==
    [ticker |-> ticker, relationship |-> relationship,
     impact_direction |-> direction, impact_magnitude |-> magnitude,
     confidence |-> confidence, time_lag_days |-> lag, rationale |-> rationale]

\* The decision table with the relationship row tested first.
determine_strategy_PairsFirst(entity) ==
    IF entity.relationship \in {"competitor", "inverse"} THEN "PAIRS_TRADE"
    ELSE IF entity.confidence > 80 /\ entity.time_lag_days < 5 THEN "DIRECT_EQUITY"
    ELSE IF entity.confidence > 70 /\ entity.time_lag_days < 10 THEN "OPTIONS_DIRECTIONAL"
    ELSE "OPTIONS_SPREAD"

\* self._determine_strategy(entity)
determine_strategy(entity) ==
    IF entity.confidence > 80 /\ entity.time_lag_days < 5 THEN "DIRECT_EQUITY"
    ELSE IF entity.confidence > 70 /\ entity.time_lag_days < 10 THEN "OPTIONS_DIRECTIONAL"
    ELSE IF entity.relationship \in {"competitor", "inverse"} THEN "PAIRS_TRADE"
    ELSE "OPTIONS_SPREAD"

\* The signal with size_multiplier taken from the confidence alone.
Signal_SizeFromConfidence(entity) ==
    [ticker |-> entity.ticker,
     action |-> IF entity.impact_direction = "positive" THEN "BUY" ELSE "SELL",
     strategy |-> determine_strategy(entity),
     size_multiplier |-> entity.confidence * 100,
     time_horizon |-> entity.time_lag_days,
     stop_loss |-> IF entity.confidence > 80 THEN 5 ELSE 3,
     take_profit |-> IF entity.impact_magnitude > 70 THEN 10 ELSE 7,
     rationale |-> entity.rationale]

\* signal = {...}; size_multiplier is in ten-thousandths
Signal(entity) ==
    [ticker |-> entity.ticker,
     action |-> IF entity.impact_direction = "positive" THEN "BUY" ELSE "SELL",
     strategy |-> determine_strategy(entity),
     size_multiplier |-> entity.confidence * entity.impact_magnitude,
     time_horizon |-> entity.time_lag_days,
     stop_loss |-> IF entity.confidence > 80 THEN 5 ELSE 3,
     take_profit |-> IF entity.impact_magnitude > 70 THEN 10 ELSE 7,
     rationale |-> entity.rationale]

\* The threshold test with >= instead of >.
Qualifies_AtLeast(entity) == entity.confidence >= ConfidenceThreshold

\* if entity['confidence'] > 0.6
Qualifies(entity) == entity.confidence > ConfidenceThreshold

RECURSIVE Entities(_)
\* for category, entities in second_order_map.items(): for entity in entities
Entities(map) ==
    IF map = <<>> THEN <<>> ELSE Head(map).entities \o Entities(Tail(map))

RECURSIVE Candidates(_)
\* The signals list after the two loops: one signal per qualifying entity.
Candidates(es) ==
    IF es = <<>> THEN <<>>
    ELSE (IF Qualifies(Head(es)) THEN <<Signal(Head(es))>> ELSE <<>>)
         \o Candidates(Tail(es))

RECURSIVE InsertDesc_BeforeEqual(_, _)
\* The insertion that puts x before the elements of equal key (not stable).
InsertDesc_BeforeEqual(sorted, x) ==
    IF sorted = <<>> THEN <<x>>
    ELSE IF Head(sorted).size_multiplier > x.size_multiplier
      THEN <<Head(sorted)>> \o InsertDesc_BeforeEqual(Tail(sorted), x)
      ELSE <<x>> \o sorted

RECURSIVE InsertDesc(_, _)
\* x placed after every element of sorted whose key is >= its key.
InsertDesc(sorted, x) ==
    IF sorted = <<>> THEN <<x>>
    ELSE IF Head(sorted).size_multiplier >= x.size_multiplier
      THEN <<Head(sorted)>> \o InsertDesc(Tail(sorted), x)
      ELSE <<x>> \o sorted

RECURSIVE SortedDesc(_)
\* sorted(signals, key=size_multiplier, reverse=True): descending and stable
\* (elements of equal key keep their order), by insertion of each element in turn.
SortedDesc(seq) ==
    IF seq = <<>> THEN <<>>
    ELSE InsertDesc(SortedDesc(SubSeq(seq, 1, Len(seq) - 1)), seq[Len(seq)])

\* seq[:n]
Take(seq, n) == SubSeq(seq, 1, IF Len(seq) < n THEN Len(seq) ELSE n)

generate_trade_signals(map) == Take(SortedDesc(Candidates(Entities(map))), TopN)

(***************************************************************************)
(* The input maps explored.                                                *)
(***************************************************************************)
\* Three entities a long map is made of: one at the threshold (filtered), two
\* above it with different products confidence * impact_magnitude.
Kind(k, rationale) ==
    CASE k = "weak" -> Entity("QCOM", "supplier", "positive", 90, 60, 2, rationale)
      [] k = "low"  -> Entity("AMD", "competitor", "negative", 50, 70, 7, rationale)
      [] k = "high" -> Entity("TSM", "supplier", "positive", 90, 85, 2, rationale)

\* A malformed record: an entity the collaborator returned without its
\* 'confidence' key.
Malformed(rationale) ==
    [ticker |-> "INTC", relationship |-> "competitor",
     impact_direction |-> "negative", impact_magnitude |-> 50,
     time_lag_days |-> 3, rationale |-> rationale]

\* entity['confidence'] raises KeyError for some entity of the map.
RaisesKeyError(map) ==
    \E i \in 1..Len(Entities(map)) : "confidence" \notin DOMAIN Entities(map)[i]

\* How many leading entities of a long map may be of any kind.
HeadLen(n) == IF n < 3 THEN n ELSE 3

\* The map of n entities whose first HeadLen(n) kinds are f and whose other
\* kinds are g, the first n \div 2 entities under one category and the rest
\* under another.
LongMap(n, f, g) ==
    LET flat == [i \in 1..n |-> IF i <= HeadLen(n) THEN Kind(f[i], i)
                                 ELSE Kind(g[i - HeadLen(n)], i)]
    IN  << [category |-> "supply_chain", entities |-> SubSeq(flat, 1, n \div 2)],
           [category |-> "competitive",  entities |-> SubSeq(flat, n \div 2 + 1, n)] >>

\* The map of one entity.
SingleMap(e) == << [category |-> "effects", entities |-> <<e>>] >>

\* The input maps explored: the maps of up to MaxEntities entities whose first
\* three are of any kind and whose others are "low" or "high", the maps of
\* one entity with every combination of the values the tests of the function
\* tell apart, and the maps of three entities one of which is malformed.
IsGenInput(map) ==
    \/ \E n \in 0..MaxEntities :
          \E f \in [1..HeadLen(n) -> {"weak", "low", "high"}],
             g \in [1..(n - HeadLen(n)) -> {"low", "high"}] :
                map = LongMap(n, f, g)
    \/ \E r \in {"supplier", "competitor", "inverse"},
          d \in {"positive", "negative"},
          m \in {0, 70, 71, 100},
          c \in {0, 60, 61, 70, 71, 80, 81, 100},
          l \in {0, 4, 5, 9, 10, 30} :
             map = SingleMap(Entity("LRCX", r, d, m, c, l, 1))
    \/ \E f \in [1..3 -> {"weak", "low", "high"}], p \in 1..3 :
          map = << [category |-> "supply_chain",
                    entities |-> [i \in 1..3 |-> IF i = p THEN Malformed(i)
                                                  ELSE Kind(f[i], i)]] >>

\* The algorithm, not started.
AlgoIdle ==
    /\ Time = 0
    /\ phase = "open"
    /\ Portfolio = [s \in Securities |-> 0]
    /\ orders = {}
    /\ second_order_positions = <<>>
    /\ rejected = {}
    /\ events = {}
    /\ closed = {}

InitGen ==
    /\ IsGenInput(second_order_map)
    /\ signals = <<>>
    /\ gen_pc = "input"
    /\ AlgoIdle
    /\ AIIdle

\* signals = await ai.generate_trade_signals(second_order_map)
Generate ==
    /\ gen_pc = "input"
    /\ IF RaisesKeyError(second_order_map)
       THEN \* the KeyError leaves the loops and the function: nothing is returned
            signals' = <<>> /\ gen_pc' = "raised"
       ELSE signals' = generate_trade_signals(second_order_map) /\ gen_pc' = "done"
    /\ UNCHANGED <<second_order_map, algoVars, aiVars>>

NextGen == Generate

SpecGen == InitGen /\ [][NextGen]_vars

(***************************************************************************)
(* Claims about the Signal Generator (specification SpecGen).              *)
(***************************************************************************)
InputEntities == Range(Entities(second_order_map))
Returned == Range(signals)
\* The signal in the result that was made from entity e, if any.
MadeFrom(e) == {sg \in Returned : sg.rationale = e.rationale}

\* C5: an entity whose confidence is at most 0.6 yields no signal.
C5_NoSignalAtOrBelowThreshold ==
    gen_pc = "done"
    => \A e \in InputEntities : e.confidence <= 60 => MadeFrom(e) = {}

\* The call has returned signals for a map that also holds an entity with
\* confidence exactly 0.6.
C5_Witness ==
    /\ gen_pc = "done"
    /\ signals # <<>>
    /\ \E e \in InputEntities : e.confidence = 60

\* C7: the size_multiplier of every returned signal is the product of the
\* confidence and the impact_magnitude of the entity it was made from.
C7_SizeIsConfidenceTimesMagnitude ==
    gen_pc = "done"
    => \A sg \in Returned :
          \E e \in InputEntities :
              /\ e.rationale = sg.rationale
              /\ sg.size_multiplier = e.confidence * e.impact_magnitude

\* The call has returned the signal of an entity with confidence 0.85 and
\* magnitude 0.9: size_multiplier 0.765.
C7_Witness ==
    /\ gen_pc = "done"
    /\ \E sg \in Returned : sg.size_multiplier = 7650 /\ sg.ticker = "TSM"

\* The entities of the input that pass the threshold.
Qualifying == {e \in InputEntities : e.confidence > 60}
Product(e) == e.confidence * e.impact_magnitude

\* C8: at most 10 signals are returned, in descending order of size_multiplier,
\* equal ones in input order; with more than 10 candidates the result is the 10
\* largest (of equal candidates at the cut, the earlier ones).
C8_TopTenSortedStable ==
    gen_pc = "done"
    => /\ Len(signals) <= 10
       /\ Len(signals) = (IF Cardinality(Qualifying) < 10
                            THEN Cardinality(Qualifying) ELSE 10)
       /\ \A i, j \in 1..Len(signals) :
             i < j => \/ signals[i].size_multiplier > signals[j].size_multiplier
                      \/ /\ signals[i].size_multiplier = signals[j].size_multiplier
                         /\ signals[i].rationale < signals[j].rationale
       /\ \A e \in Qualifying :
             MadeFrom(e) = {}
             => \A sg \in Returned :
                   \/ sg.size_multiplier > Product(e)
                   \/ /\ sg.size_multiplier = Product(e)
                      /\ sg.rationale < e.rationale

\* Eleven candidates of both sizes qualified, ten signals were returned, and a
\* candidate as large as a returned one was dropped.
C8_Witness ==
    /\ gen_pc = "done"
    /\ Cardinality(Qualifying) = 11
    /\ Len(signals) = 10
    /\ \E i, j \in 1..Len(signals) :
          signals[i].size_multiplier > signals[j].size_multiplier
    /\ \E e \in Qualifying :
          /\ MadeFrom(e) = {}
          /\ \E sg \in Returned : sg.size_multiplier = Product(e)

\* C16: the strategy of every returned signal is the first row of the decision
\* table its entity matches: DIRECT_EQUITY for confidence > 0.8 and lag < 5,
\* else OPTIONS_DIRECTIONAL for confidence > 0.7 and lag < 10, else PAIRS_TRADE
\* for a competitor or inverse relationship, else OPTIONS_SPREAD.
C16_StrategyFirstMatch ==
    gen_pc = "done"
    => \A sg \in Returned :
          \E e \in InputEntities :
              /\ e.rationale = sg.rationale
              /\ sg.strategy =
                    (CASE e.confidence > 80 /\ e.time_lag_days < 5 -> "DIRECT_EQUITY"
                       [] ~(e.confidence > 80 /\ e.time_lag_days < 5)
                          /\ e.confidence > 70 /\ e.time_lag_days < 10
                            -> "OPTIONS_DIRECTIONAL"
                       [] ~(e.confidence > 80 /\ e.time_lag_days < 5)
                          /\ ~(e.confidence > 70 /\ e.time_lag_days < 10)
                          /\ e.relationship \in {"competitor", "inverse"}
                            -> "PAIRS_TRADE"
                       [] OTHER -> "OPTIONS_SPREAD")

\* The call has returned DIRECT_EQUITY for a competitor with confidence 0.81
\* and a lag of 4 days.
C16_Witness ==
    /\ gen_pc = "done"
    /\ \E sg \in Returned :
          /\ sg.strategy = "DIRECT_EQUITY"
          /\ \E e \in InputEntities :
                /\ e.rationale = sg.rationale
                /\ e.relationship = "competitor"
                /\ e.confidence = 81
                /\ e.time_lag_days = 4

\* C21: a malformed record does not keep the other entities of the map from
\* being evaluated: the call returns, and with fewer than 10 entities every
\* well-formed entity above the threshold has its signal.
C21_MalformedRecordSkipped ==
    gen_pc \in {"done", "raised"}
    => /\ gen_pc = "done"
       /\ \A i \in 1..Len(Entities(second_order_map)) :
             LET e == Entities(second_order_map)[i]
             IN  ("confidence" \in DOMAIN e /\ e.confidence > 60
                  /\ Len(Entities(second_order_map)) < TopN)
                 => \E sg \in Returned : sg.rationale = e.rationale

\* C20: no ticker appears more than once in the signals returned for one map.
C20_OneSignalPerTicker ==
    gen_pc = "done"
    => \A i, j \in 1..Len(signals) :
          i # j => signals[i].ticker # signals[j].ticker

(***************************************************************************)
(* SecondOrderAI: the collaborator calls and their cache (specification    *)
(* SpecAI).                                                                *)
(*                                                                         *)
(* A task is one coroutine running detect_primary_event or                 *)
(* map_second_order_effects.  It runs without suspension up to the POST of *)
(* _query_perplexity / _query_claude (or to its end, on a cache hit), and  *)
(* from the arrival of the response to its end.                            *)
(***************************************************************************)
\* Number of coroutines explored.
MaxTasks == 2
\* (datetime.now() - timestamp).seconds < 300
FreshSeconds == 300
SecondsPerDay == 86400

\* The instants at which datetime.now() is read.
Instants == {0, 100, 299, 300, 86500}

\* SupplyChainMapper.relationships
relationships ==
    [p \in {"AAPL", "TSLA", "NVDA", "MSFT"} |->
        CASE p = "AAPL" ->
               << [category |-> "suppliers",   tickers |-> <<"QCOM", "SWKS", "AVGO", "QRVO", "TSM", "HON", "STX">>],
                  [category |-> "customers",   tickers |-> <<"VZ", "T", "TMUS">>],
                  [category |-> "competitors", tickers |-> <<"GOOGL", "MSFT", "SSNLF">>],
                  [category |-> "ecosystem",   tickers |-> <<"UBER", "LYFT", "SQ", "SHOP">>] >>
          [] p = "TSLA" ->
               << [category |-> "suppliers",      tickers |-> <<"PANW", "ALB", "LAC", "LTHM", "NVDA", "STM">>],
                  [category |-> "competitors",    tickers |-> <<"F", "GM", "RIVN", "LCID", "NIO", "XPEV">>],
                  [category |-> "infrastructure", tickers |-> <<"CHPT", "BLNK", "EVGO">>],
                  [category |-> "battery",        tickers |-> <<"QS", "SLDP", "MVST">>] >>
          [] p = "NVDA" ->
               << [category |-> "suppliers",   tickers |-> <<"TSM", "ASML", "AMAT", "LRCX", "KLAC">>],
                  [category |-> "customers",   tickers |-> <<"MSFT", "GOOGL", "AMZN", "META", "TSLA">>],
                  [category |-> "competitors", tickers |-> <<"AMD", "INTC", "QCOM">>],
                  [category |-> "related",     tickers |-> <<"SMCI", "DELL", "HPE">>] >>
          [] p = "MSFT" ->
               << [category |-> "partners",    tickers |-> <<"NVDA", "AMD", "ORCL">>],
                  [category |-> "competitors", tickers |-> <<"AMZN", "GOOGL", "CRM">>],
                  [category |-> "ecosystem",   tickers |-> <<"ADBE", "NOW", "TEAM", "DOCU">>],
                  [category |-> "hardware",    tickers |-> <<"DELL", "HPQ", "NTAP">>] >>]

\* SupplyChainMapper.calculate_impact_score: weights.get(relationship_type, 0.3)
calculate_impact_score(relationship_type) ==
    CASE relationship_type = "suppliers" -> 70
      [] relationship_type = "customers" -> 60
      [] relationship_type = "competitors" -> 50
      [] relationship_type = "ecosystem" -> 40
      [] relationship_type = "infrastructure" -> 60
      [] relationship_type = "partners" -> 80
      [] OTHER -> 30

\* The (category, ticker) neighbours of a ticker in the relationship graph;
\* none for a ticker the graph does not know.
Neighbours(ticker) ==
    IF ticker \in DOMAIN relationships
    THEN Range(Flatten(relationships[ticker])) ELSE {}

\* The requests explored: a primary event on a ticker of the graph
\* (map_second_order_effects) and a list of news items (detect_primary_event).
Requests ==
    {[op |-> "map", ticker |-> "NVDA", category |-> "earnings_beat"],
     [op |-> "detect", ticker |-> "", category |-> "news"]}

\* cache_key = f"claude_{hash(prompt)}" / f"perplexity_{hash(prompt)}"; the
\* prompt is a function of the request.
cache_key(request) ==
    <<IF request.op = "map" THEN "claude" ELSE "perplexity", request>>

\* What the collaborator can do with a POST: answer with text that is valid
\* JSON (value holds what json.loads returns), answer with text that is not,
\* or fail: the 30 s timeout expires, the connection fails, or the body has
\* no content (httpx.TimeoutException, httpx.ConnectError, KeyError).
Replies(request) ==
    { [kind |-> "json",
       value |-> IF request.op = "map"
                   THEN SingleMap(Kind("high", 1))
                   ELSE <<[primary_ticker |-> "NVDA", category |-> "earnings",
                           magnitude |-> 7, duration_days |-> 5]>>],
      [kind |-> "prose", value |-> <<>>],
      [kind |-> "failed", value |-> <<>>] }

\* (datetime.now() - entry['timestamp']).seconds: the seconds field of a
\* timedelta, which leaves the whole days out.
timedelta_seconds(later, earlier) == (later - earlier) % SecondsPerDay

\* The cache check with a window one second too short.
CacheHit_WindowTooShort(c, key, t) ==
    /\ key \in DOMAIN c
    /\ timedelta_seconds(t, c[key].timestamp) < FreshSeconds - 1

\* if cache_key in self.cache: if (...).seconds < 300
CacheHit(c, key, t) ==
    /\ key \in DOMAIN c
    /\ timedelta_seconds(t, c[key].timestamp) < FreshSeconds

IdleTask ==
    [pc |-> "idle", request |-> [op |-> "none", ticker |-> "", category |-> ""],
     reply |-> "none", result |-> <<>>]

\* return json.loads(response): the parsed value, or JSONDecodeError.
LoadsAndReturn(task, response, how) ==
    IF response.kind = "json"
    THEN [task EXCEPT !.pc = "returned", !.reply = how, !.result = response.value]
    ELSE [task EXCEPT !.pc = "raised", !.reply = how, !.result = <<>>]

InitAI ==
    /\ cache = <<>>
    /\ now = 0
    /\ tasks = [t \in 1..MaxTasks |-> IdleTask]
    /\ AlgoIdle
    /\ GenIdle

\* A step started at instant t with cache c, run to its first suspension: the
\* task it has become and the cache it leaves.  On a cache hit it returns (or
\* raises in json.loads) at once, otherwise it sends the POST.
Started(c, request, t) ==
    [cache |-> c,
     task |-> IF CacheHit(c, cache_key(request), t)
                THEN LoadsAndReturn([IdleTask EXCEPT !.request = request],
                                    c[cache_key(request)].response, "cached")
                ELSE \* await client.post(url, ..., timeout=30)
                     [IdleTask EXCEPT !.pc = "awaiting", !.request = request]]

\* A coroutine is started and runs to its first suspension.
Call(t, request) ==
    /\ tasks[t].pc # "awaiting"
    /\ tasks' = [tasks EXCEPT ![t] = Started(cache, request, now).task]
    /\ cache' = Started(cache, request, now).cache
    /\ UNCHANGED <<now, algoVars, genVars>>

\* The POST of a suspended coroutine ends, and the coroutine runs to its end.
Respond(t) ==
    /\ tasks[t].pc = "awaiting"
    /\ \E reply \in Replies(tasks[t].request) :
          IF reply.kind \in {"json", "prose"}
          THEN \* result = response.json()[...]; self.cache[cache_key] = {...}
               /\ cache' = Put(cache, cache_key(tasks[t].request),
                               [response |-> reply, timestamp |-> now])
               /\ tasks' = [tasks EXCEPT ![t] = LoadsAndReturn(@, reply, reply.kind)]
          ELSE \* the exception leaves _query_claude / _query_perplexity and
               \* then the step that awaited it: no handler on the way
               /\ cache' = cache
               /\ tasks' = [tasks EXCEPT ![t] =
                              [@ EXCEPT !.pc = "raised", !.reply = reply.kind]]
    /\ UNCHANGED <<now, algoVars, genVars>>

\* Time passes.
Tick ==
    /\ \E t \in Instants : t > now /\ now' = t
    /\ UNCHANGED <<cache, tasks, algoVars, genVars>>

NextAI ==
    \/ \E t \in 1..MaxTasks, request \in Requests : Call(t, request)
    \/ \E t \in 1..MaxTasks : Respond(t)
    \/ Tick

SpecAI == InitAI /\ [][NextAI]_vars

(***************************************************************************)
(* Claims about the Effect Mapper (specification SpecAI).                  *)
(***************************************************************************)
\* The tasks that have ended after their collaborator call failed (timeout,
\* error) or answered with text that is no JSON.
FailedTasks ==
    {t \in 1..MaxTasks :
        /\ tasks[t].pc \in {"returned", "raised"}
        /\ tasks[t].reply \in {"failed", "prose"}}

\* C9: a failed collaborator call is not propagated: the detection or mapping
\* step returns a result instead of raising.
C9_FailureNotPropagated ==
    \A t \in FailedTasks : tasks[t].pc = "returned"

\* C10: when the causal-mapping call fails, the mapper still completes and
\* emits records from the graph alone: only for graph neighbours of the primary
\* ticker, each with the weight of its edge's category as impact_magnitude,
\* confidence 0.5 and lag 0.
C10_GraphFallback ==
    \A t \in FailedTasks :
        tasks[t].request.op = "map"
        => LET emitted == Range(Entities(tasks[t].result))
               near == Neighbours(tasks[t].request.ticker)
           IN  /\ tasks[t].pc = "returned"
               /\ near # {} => emitted # {}
               /\ \A e \in emitted :
                     /\ \E n \in near :
                           /\ n[2] = e.ticker
                           /\ e.impact_magnitude = calculate_impact_score(n[1])
                     /\ e.confidence = 50
                     /\ e.time_lag_days = 0

\* The age of the cached response of a request, in seconds.
Age(request) == now - cache[cache_key(request)].timestamp

\* C12: a lookup made when the cached response of its request is 300 s old or
\* older does not return the cached response: it makes a new external call.
C12_StaleNotReturned ==
    \A request \in Requests :
        (cache_key(request) \in DOMAIN cache /\ Age(request) >= FreshSeconds)
        => Started(cache, request, now).task.pc = "awaiting"

\* C13: a lookup made when the cached response of its request is younger than
\* 300 s ends at once with that response (parsed, or refused by json.loads),
\* makes no external call and leaves the cache, timestamps included, as it was.
C13_FreshHitReturnsCached ==
    \A request \in Requests :
        (cache_key(request) \in DOMAIN cache /\ Age(request) < FreshSeconds)
        => LET after == Started(cache, request, now)
               cached == cache[cache_key(request)].response
           IN  /\ after.task.pc # "awaiting"
               /\ after.task.reply = "cached"
               /\ after.task.request = request
               /\ IF cached.kind = "json"
                  THEN after.task.pc = "returned" /\ after.task.result = cached.value
                  ELSE after.task.pc = "raised"
               /\ after.cache = cache

\* A lookup has been answered from a response cached 299 s earlier, which is
\* still in the cache with its timestamp.
C13_Witness ==
    \E t \in DOMAIN tasks :
        /\ tasks[t].reply = "cached"
        /\ tasks[t].pc = "returned"
        /\ cache_key(tasks[t].request) \in DOMAIN cache
        /\ cache[cache_key(tasks[t].request)].timestamp = 0
        /\ cache[cache_key(tasks[t].request)].response.value = tasks[t].result
        /\ now = 299

(***************************************************************************)
(* The unknown ticker, in the algorithm and in the relationship graph.     *)
(***************************************************************************)
\* C22: a primary event on a ticker without a chain maps to nothing: both
\* mappers of the algorithm return the run as it was (no position, no
\* rejection, no change of the book), and the graph has no neighbours for it.
C22_UnknownTickerChangesNothing ==
    /\ \A primary \in Range(primary_movers) \ DOMAIN supply_chains :
          /\ \A move \in {-6, 6}, data \in DataSlices :
                TriggerSecondOrderTrades(Start(Book), primary, move, data, Time)
                   = Start(Book)
          /\ \A move \in {-12, 12} :
                AnalyzeSecondOrderOpportunities(Start(Book), primary, move, Time)
                   = {Start(Book)}
    /\ \A ticker \in Range(primary_movers) \ DOMAIN relationships :
          Neighbours(ticker) = {}

\* A data callback has detected an intraday event on a held ticker that has
\* no chain, and no trade call was made.
C22_Witness ==
    /\ \E e \in events :
          /\ e.symbol \notin DOMAIN supply_chains
          /\ Portfolio[e.symbol] # 0
    /\ rejected = {}
    /\ DOMAIN second_order_positions # {}

(***************************************************************************)
(* Concurrent lookups (specification SpecAI).                              *)
(***************************************************************************)
\* C29: no two lookups of the same request content wait for an external call
\* at the same time: at most one call is in flight per content.
C29_SingleFlight ==
    \A t1, t2 \in DOMAIN tasks :
        (t1 # t2 /\ tasks[t1].pc = "awaiting" /\ tasks[t2].pc = "awaiting")
        => tasks[t1].request # tasks[t2].request

====
